---- MODULE Spec2Model ----
(***************************************************************************)
(* Bear GitOps payment service (src/app/main.py): a FastAPI application    *)
(* whose handlers run as coroutines of one asyncio event loop.  The model  *)
(* covers the configuration file and its loading, the /health, /config and *)
(* /reload handlers, the latency model, and the payment handler with its   *)
(* two suspensions, its spans and its timers.                              *)
(***************************************************************************)
EXTENDS Integers, Sequences, FiniteSets, TLC

(***************************************************************************)
(* Bounds of the model.                                                    *)
(***************************************************************************)
NReq == 2
MaxEdits == 1
MaxPool == 30

Reqs == 1..NReq

(***************************************************************************)
(* Python floats.  A latency is an IEEE-754 binary64 value; the model      *)
(* keeps it exactly, as an unsigned fixed-point number with FracBits       *)
(* fractional bits and WholeBits integer bits, written as a tuple of bits, *)
(* least significant first.  Every float operation is the exact operation  *)
(* followed by rounding to Precision significant bits, ties to even.       *)
(***************************************************************************)
Precision == 53
FracBits == 53
WholeBits == 13
Width == FracBits + WholeBits

Pow2(n) == IF n <= 0 THEN 1 ELSE 2 ^ n

\* The float of a small non-negative integer (int -> float conversion).
FloatOfInt(n) ==
    [i \in 1..Width |-> IF i <= FracBits THEN 0 ELSE (n \div Pow2(i - FracBits - 1)) % 2]

\* floor(x) and ceil(x) of a float, as integers.
RECURSIVE WholeFrom(_, _)
WholeFrom(x, i) ==
    IF i > Width THEN 0 ELSE x[i] + 2 * WholeFrom(x, i + 1)

Floor(x) == WholeFrom(x, FracBits + 1)

HasFraction(x) == \E i \in 1..FracBits : x[i] = 1

Ceil(x) == Floor(x) + (IF HasFraction(x) THEN 1 ELSE 0)

\* Exact sum and exact product by a small integer, carry by carry.
RECURSIVE AddFrom(_, _, _, _)
AddFrom(x, y, i, carry) ==
    IF i > Width THEN <<>>
    ELSE LET t == x[i] + y[i] + carry
         IN  <<t % 2>> \o AddFrom(x, y, i + 1, t \div 2)

ExactAdd(x, y) == AddFrom(x, y, 1, 0)

RECURSIVE MulFrom(_, _, _, _)
MulFrom(x, c, i, carry) ==
    IF i > Width THEN <<>>
    ELSE LET t == x[i] * c + carry
         IN  <<t % 2>> \o MulFrom(x, c, i + 1, t \div 2)

ExactMul(c, x) == MulFrom(x, c, 1, 0)

\* Position of the leading one bit (0 for zero).
TopBit(x) ==
    IF \A i \in 1..Width : x[i] = 0 THEN 0
    ELSE CHOOSE i \in 1..Width : x[i] = 1 /\ \A j \in (i + 1)..Width : x[j] = 0

\* Round to nearest, ties to even, keeping Precision significant bits.
RoundNearestEven(x) ==
    LET drop == TopBit(x) - Precision IN
    IF drop <= 0 THEN x
    ELSE LET kept   == [i \in 1..Width |-> IF i <= drop THEN 0 ELSE x[i]]
             sticky == \E i \in 1..(drop - 1) : x[i] = 1
             up     == x[drop] = 1 /\ (sticky \/ x[drop + 1] = 1)
             ulp    == [i \in 1..Width |-> IF i = drop + 1 THEN 1 ELSE 0]
         IN  IF up THEN ExactAdd(kept, ulp) ELSE kept

FloatMul(c, x) == RoundNearestEven(ExactMul(c, x))

FloatAdd(x, y) == RoundNearestEven(ExactAdd(x, y))

\* x < n and x >= n for a float x and an integer n.
FloatLess(x, n) == Floor(x) < n

FloatAtLeast(x, n) == Floor(x) >= n

FloatAtMost(x, n) == Ceil(x) <= n

(***************************************************************************)
(* random.random() returns k * 2^-53 for an integer 0 <= k < 2^53.  The    *)
(* draws of the model: zero, the least positive, one half, the greatest    *)
(* and one near it.  Requests that run to completion draw an extreme.      *)
(***************************************************************************)
DrawOfBits(f) == [i \in 1..Width |-> IF i <= FracBits THEN f[i] ELSE 0]

DrawZero == DrawOfBits([i \in 1..FracBits |-> 0])

DrawLeast == DrawOfBits([i \in 1..FracBits |-> IF i = 1 THEN 1 ELSE 0])

DrawHalf == DrawOfBits([i \in 1..FracBits |-> IF i = FracBits THEN 1 ELSE 0])

DrawNearMax == DrawOfBits([i \in 1..FracBits |-> IF i = 2 THEN 0 ELSE 1])

DrawMax == DrawOfBits([i \in 1..FracBits |-> 1])

AllDraws == {DrawZero, DrawLeast, DrawHalf, DrawNearMax, DrawMax}

Draws == {DrawZero, DrawMax}

\* random.uniform(a, b) is a + (b - a) * random(); here a = 0.
uniform(a, b, draw) == FloatAdd(FloatOfInt(a), FloatMul(b - a, draw))

\* The three expressions of calculate_latency (lines 106, 109 and 112), each
\* worked out once per draw.
severe_latency == [d \in AllDraws |-> FloatAdd(FloatOfInt(2000), uniform(0, 3000, d))]

moderate_latency == [d \in AllDraws |-> FloatAdd(FloatOfInt(500), uniform(0, 1000, d))]

healthy_latency == [d \in AllDraws |-> FloatAdd(FloatOfInt(10), uniform(0, 40, d))]

(***************************************************************************)
(* Python values as the handlers see them: the result of yaml.safe_load is *)
(* None, a scalar or a mapping.  A call either returns a value or raises.   *)
(***************************************************************************)
PyNone == [t |-> "none"]

PyInt(n) == [t |-> "int", v |-> n]

PyStr(s) == [t |-> "str", v |-> s]

PyMap(m) == [t |-> "map", m |-> m]

EmptyMap == PyMap(<<>>)

Ok(v) == [ok |-> TRUE, v |-> v]

Raise(e) == [ok |-> FALSE, exc |-> e]

\* d.get(k, dflt): an AttributeError unless d is a mapping.
DictGet(d, k, dflt) ==
    IF d.t # "map" THEN Raise("AttributeError")
    ELSE IF k \in DOMAIN d.m THEN Ok(d.m[k]) ELSE Ok(dflt)

(***************************************************************************)
(* The configuration file config/payment-service.yaml: absent, present but *)
(* not YAML, or present with a document.                                   *)
(***************************************************************************)
PoolSizes == {5, 9, 10, 24, 25, 50}

ServiceSection == PyMap([timeout_ms |-> PyInt(100), version |-> PyStr("1.1.0")])

PoolDoc(p) ==
    PyMap([database |-> PyMap([connection_pool_size |-> PyInt(p)]), service |-> ServiceSection])

NoDatabaseDoc == PyMap([service |-> ServiceSection])

NoKeyDoc == PyMap([database |-> PyMap([host |-> PyStr("db")]), service |-> ServiceSection])

NullDatabaseDoc == PyMap([database |-> PyNone, service |-> ServiceSection])

TextPoolDoc ==
    PyMap([database |-> PyMap([connection_pool_size |-> PyStr("fifty")]), service |-> ServiceSection])

Docs ==
    {PoolDoc(p) : p \in PoolSizes}
        \cup {PyNone, NoDatabaseDoc, NoKeyDoc, NullDatabaseDoc, TextPoolDoc}

Absent == [kind |-> "absent"]

Malformed == [kind |-> "malformed"]

File(d) == [kind |-> "file", doc |-> d]

Sources == {Absent, Malformed} \cup {File(d) : d \in Docs}

DefaultConfig ==
    PyMap([database |-> PyMap([connection_pool_size |-> PyInt(50)]),
         service |-> PyMap([timeout_ms |-> PyInt(100)])])

\* A faulty variant: the path is wrong, the file is never found.
load_config_wrong_path(src) == Ok(DefaultConfig)

\* load_config(): the file's document when the file exists (yaml.safe_load
\* raises on a malformed file and returns None for an empty one), the
\* hardcoded default otherwise.
load_config(src) ==
    IF src.kind = "absent" THEN Ok(DefaultConfig)
    ELSE IF src.kind = "malformed" THEN Raise("YAMLError")
    ELSE Ok(src.doc)

(***************************************************************************)
(* config.get("database", {}).get("connection_pool_size", 50), as written  *)
(* in calculate_latency, in health and in process_payment.                 *)
(***************************************************************************)
latency_pool_size(cfg) ==
    LET db == DictGet(cfg, "database", EmptyMap)
    IN  IF db.ok THEN DictGet(db.v, "connection_pool_size", PyInt(50)) ELSE db

health_pool_size(cfg) ==
    LET db == DictGet(cfg, "database", EmptyMap)
    IN  IF db.ok THEN DictGet(db.v, "connection_pool_size", PyInt(50)) ELSE db

payment_pool_size(cfg) ==
    LET db == DictGet(cfg, "database", EmptyMap)
    IN  IF db.ok THEN DictGet(db.v, "connection_pool_size", PyInt(50)) ELSE db

\* A faulty variant: the tiers chosen by <= instead of <.
calculate_latency_le(cfg, draw) ==
    LET pool_size == latency_pool_size(cfg) IN
    IF ~pool_size.ok THEN pool_size
    ELSE IF pool_size.v.t # "int" THEN Raise("TypeError")
    ELSE IF pool_size.v.v <= 10 THEN Ok(severe_latency[draw])
    ELSE IF pool_size.v.v <= 25 THEN Ok(moderate_latency[draw])
    ELSE Ok(healthy_latency[draw])

\* calculate_latency(): the tier is chosen by pool_size < 10, then
\* pool_size < 25; comparing a non-number with an int raises TypeError.
calculate_latency(cfg, draw) ==
    LET pool_size == latency_pool_size(cfg) IN
    IF ~pool_size.ok THEN pool_size
    ELSE IF pool_size.v.t # "int" THEN Raise("TypeError")
    ELSE IF pool_size.v.v < 10 THEN Ok(severe_latency[draw])
    ELSE IF pool_size.v.v < 25 THEN Ok(moderate_latency[draw])
    ELSE Ok(healthy_latency[draw])

Http500(e) == [code |-> 500, exc |-> e]

\* A faulty variant: healthy only above 25.
health_off_by_one(cfg) ==
    LET pool_size == health_pool_size(cfg) IN
    IF ~pool_size.ok THEN Http500(pool_size.exc)
    ELSE IF pool_size.v.t # "int" THEN Http500("TypeError")
    ELSE [code |-> 200,
          status |-> IF pool_size.v.v > 25 THEN "healthy" ELSE "degraded",
          service |-> "payment-service",
          version |-> PyStr("1.0.0"),
          connection_pool_size |-> pool_size.v.v,
          warning |-> IF pool_size.v.v < 25 THEN "Pool size too low!" ELSE "null"]

\* health(): the body of GET /health, or the 500 of an exception.
health(cfg) ==
    LET pool_size == health_pool_size(cfg) IN
    IF ~pool_size.ok THEN Http500(pool_size.exc)
    ELSE IF pool_size.v.t # "int" THEN Http500("TypeError")
    ELSE LET service == DictGet(cfg, "service", EmptyMap)
             version == IF service.ok THEN DictGet(service.v, "version", PyStr("1.0.0"))
                        ELSE service
         IN  IF ~version.ok THEN Http500(version.exc)
             ELSE [code |-> 200,
                   status |-> IF pool_size.v.v >= 25 THEN "healthy" ELSE "degraded",
                   service |-> "payment-service",
                   version |-> version.v,
                   connection_pool_size |-> pool_size.v.v,
                   warning |-> IF pool_size.v.v < 25 THEN "Pool size too low!" ELSE "null"]

\* get_config(): the configuration object as it is.
get_config(cfg) == [code |-> 200, config |-> cfg]

\* A faulty variant: without "global config" the assignment is to a local.
reload_keep_old(old, loaded) == old

\* reload_config(): the value the global takes, and the response.
reload_publish(old, loaded) == loaded

reload_response(loaded) == [code |-> 200, status |-> "reloaded", config |-> loaded]

(***************************************************************************)
(* process_payment, cut at its two awaits.  Each piece runs on the event   *)
(* loop without interruption; what it leaves behind is a record of the     *)
(* request's fields.                                                       *)
(***************************************************************************)
Unset == [t |-> "unset"]

NoAttrs ==
    [pool |-> Unset, latency_ms |-> <<>>, warning |-> "unset", processing_time_ms |-> -1]

NoResponse == [status |-> "none"]

Order == <<"Start", "AcquireConnection", "Process", "Complete">>

SpanStart(name) == <<"start", name>>

SpanEnd(name) == <<"end", name>>

\* The 500 response of a request whose handler raised.
PaymentError(e) == [status |-> "error", exc |-> e]

\* The body of POST /api/v1/payments (PaymentRequest).  A string is the tuple
\* of its characters.
OrderIds == {<<"7">>, <<"7", "_", "2">>}

PaymentRequest ==
    [amount : {10, 25}, currency : {"USD", "EUR"}, customer_id : {"c1", "c2"},
     order_id : OrderIds]

OnePaymentRequest ==
    {[amount |-> 10, currency |-> "USD", customer_id |-> "c1", order_id |-> <<"7">>]}

NoPayment == [order_id |-> <<>>]

\* int(time.time()) on a clock of whole milliseconds that starts at the epoch.
unix_second(t) == t \div 1000

\* str(n) of a non-negative int, as the f-string formats it.
Digit(d) == <<"0", "1", "2", "3", "4", "5", "6", "7", "8", "9">>[d + 1]

RECURSIVE str_int(_)
str_int(n) == IF n < 10 THEN <<Digit(n)>> ELSE str_int(n \div 10) \o <<Digit(n % 10)>>

\* A faulty variant: the order id is left out.
transaction_id_no_order(order_id, second) == <<"t", "x", "n", "_">> \o str_int(second)

\* Line 186: f"txn_{payment.order_id}_{int(time.time())}".
transaction_id(order_id, second) ==
    <<"t", "x", "n", "_">> \o order_id \o <<"_">> \o str_int(second)

\* A faulty variant: time.sleep keeps the loop's thread for the whole sleep.
blocking_sleep(r) == r

\* await asyncio.sleep gives the loop's thread up.
asyncio_sleep(r) == 0

\* The deadline of asyncio.sleep(latency / 1000) and of asyncio.sleep(0.01),
\* on a clock that counts whole milliseconds.
acquire_deadline(t, latency) == t + Ceil(latency)

\* A faulty variant: no processing delay.
process_no_delay(t) == t

process_deadline(t) == t + 10

\* A faulty variant: the warning is decided by <= 10.
acquire_warning_le(pool_size) ==
    IF pool_size.v <= 10 THEN "connection_pool_exhausted" ELSE "unset"

\* Lines 173-174: the warning attribute of the acquire span.
acquire_warning(pool_size) ==
    IF pool_size.v < 10 THEN "connection_pool_exhausted" ELSE "unset"

\* Lines 156-176: the root span, the pool size, the acquire span, the
\* latency, the warning, up to the first await.  An exception unwinds the
\* with-blocks, which end their spans.
payment_start(cfg, draw, t) ==
    LET pool_size == payment_pool_size(cfg)
        latency   == calculate_latency(cfg, draw)
    IN  IF ~pool_size.ok
        THEN [pc |-> "raised", hist |-> <<"Start">>,
              spans |-> <<SpanStart("process_payment"), SpanEnd("process_payment")>>,
              attrs |-> NoAttrs, wake |-> 0, result |-> PaymentError(pool_size.exc)]
        ELSE IF ~latency.ok
        THEN [pc |-> "raised", hist |-> <<"Start", "AcquireConnection">>,
              spans |-> <<SpanStart("process_payment"), SpanStart("acquire_db_connection"),
                          SpanEnd("acquire_db_connection"), SpanEnd("process_payment")>>,
              attrs |-> [NoAttrs EXCEPT !.pool = pool_size.v],
              wake |-> 0, result |-> PaymentError(latency.exc)]
        ELSE [pc |-> "acquire", hist |-> <<"Start", "AcquireConnection">>,
              spans |-> <<SpanStart("process_payment"), SpanStart("acquire_db_connection")>>,
              attrs |-> [NoAttrs EXCEPT !.pool = pool_size.v,
                                        !.latency_ms = latency.v,
                                        !.warning = acquire_warning(pool_size.v)],
              wake |-> acquire_deadline(t, latency.v), result |-> NoResponse]

\* Lines 176-180: the acquire span ends, the processor span starts, the
\* coroutine sleeps again.
acquire_done(h) == [pc |-> "process", hist |-> Append(h, "Process")]

acquire_done_spans(log) ==
    log \o <<SpanEnd("acquire_db_connection"), SpanStart("payment_processor")>>

\* Lines 180-193: the processor span ends, the time is taken, the root span
\* ends as the response is returned.
\* A faulty variant: the processor span is never ended.
complete_spans_leak(log) == log \o <<SpanEnd("process_payment")>>

complete_spans(log) ==
    log \o <<SpanEnd("payment_processor"), SpanEnd("process_payment")>>

processing_time(start, end) == end - start

\* A faulty variant: the pool size attribute is set again from the global.
complete_attrs_reread(a, cfg, elapsed) ==
    [a EXCEPT !.processing_time_ms = elapsed,
              !.pool = IF payment_pool_size(cfg).ok THEN payment_pool_size(cfg).v ELSE Unset]

complete_attrs(a, cfg, elapsed) == [a EXCEPT !.processing_time_ms = elapsed]

payment_response(payment, elapsed, t) ==
    [transaction_id |-> transaction_id(payment.order_id, unix_second(t)),
     status |-> "success", message |-> "Payment processed successfully",
     processing_time_ms |-> elapsed]

(***************************************************************************)
(* The state.                                                              *)
(***************************************************************************)
VARIABLES
    source,      \* the configuration file
    edits,       \* how many times the file was changed
    phase,       \* "boot", "imported", "serving", or "failed" (startup raised)
    config,      \* the module's global config
    lastLoaded,  \* what the last load_config() that returned gave
    loadedFrom,  \* the phase it was called in, and the file as it was then
    resp,        \* the last response of /health, /config or /reload
    running,     \* the request whose code holds the loop's thread, 0 if none
    now,         \* the clock, in ms
    payment,     \* each request's body
    pc,          \* each request's place: idle, acquire, process, returned, raised
    hist,        \* the states each request has entered
    spans,       \* each request's span starts and ends, in order
    attrs,       \* each request's span attributes
    seen,        \* the configuration each request read at Start
    start_time,  \* each request's start_time
    wake,        \* each request's timer deadline
    result       \* each request's response

cfgVars == <<source, edits, phase, config, lastLoaded, loadedFrom, resp>>

reqVars == <<payment, pc, hist, spans, attrs, seen, start_time, wake, result>>

vars == <<source, edits, phase, config, lastLoaded, loadedFrom, resp, running, now,
          payment, pc, hist, spans, attrs, seen, start_time, wake, result>>

\* by is "boot" for line 41, "imported" for line 62, "reload" for line 144.
NotLoaded == [by |-> "none"]

LoadedFrom(who, src) == [by |-> who, src |-> src]

Init ==
    /\ source \in Sources
    /\ edits = 0
    /\ phase = "boot"
    /\ config = Unset
    /\ lastLoaded = Unset
    /\ loadedFrom = NotLoaded
    /\ resp = [op |-> "none"]
    /\ running = 0
    /\ now = 0
    /\ payment = [r \in Reqs |-> NoPayment]
    /\ pc = [r \in Reqs |-> "idle"]
    /\ hist = [r \in Reqs |-> <<>>]
    /\ spans = [r \in Reqs |-> <<>>]
    /\ attrs = [r \in Reqs |-> NoAttrs]
    /\ seen = [r \in Reqs |-> Unset]
    /\ start_time = [r \in Reqs |-> 0]
    /\ wake = [r \in Reqs |-> 0]
    /\ result = [r \in Reqs |-> NoResponse]

\* The file is edited, created or removed outside the service.
EditSource ==
    /\ edits < MaxEdits
    /\ \E s \in Sources \ {source} : source' = s
    /\ edits' = edits + 1
    /\ UNCHANGED <<phase, config, lastLoaded, loadedFrom, resp, running, now>>
    /\ UNCHANGED reqVars

\* Line 41, at import, and line 62, in lifespan: config = load_config().
\* An exception ends the process before it serves anything.
Load(from, to) ==
    /\ phase = from
    /\ LET loaded == load_config(source) IN
       IF loaded.ok
       THEN /\ config' = loaded.v
            /\ lastLoaded' = loaded.v
            /\ loadedFrom' = LoadedFrom(from, source)
            /\ phase' = to
       ELSE /\ phase' = "failed"
            /\ UNCHANGED <<config, lastLoaded, loadedFrom>>
    /\ UNCHANGED <<source, edits, resp, running, now>>
    /\ UNCHANGED reqVars

module_load == phase = "boot" /\ Load("boot", "imported")

lifespan == phase = "imported" /\ Load("imported", "serving")

Serving == phase = "serving" /\ running = 0

\* A faulty variant: the section is looked up with setdefault, which puts a
\* missing section into the global.
Health_setdefault ==
    /\ Serving
    /\ resp' = [op |-> "health", body |-> health(config)]
    /\ config' = IF config.t = "map" /\ "database" \notin DOMAIN config.m
                 THEN PyMap(config.m @@ [database |-> EmptyMap])
                 ELSE config
    /\ UNCHANGED <<source, edits, phase, lastLoaded, loadedFrom, running, now>>
    /\ UNCHANGED reqVars

\* GET /health.
Health ==
    /\ Serving
    /\ resp' = [op |-> "health", body |-> health(config)]
    /\ UNCHANGED <<source, edits, phase, config, lastLoaded, loadedFrom, running, now>>
    /\ UNCHANGED reqVars

\* GET /config.
GetConfig ==
    /\ Serving
    /\ resp' = [op |-> "config", body |-> get_config(config)]
    /\ UNCHANGED <<source, edits, phase, config, lastLoaded, loadedFrom, running, now>>
    /\ UNCHANGED reqVars

\* POST /reload.
Reload ==
    /\ Serving
    /\ LET loaded == load_config(source) IN
       IF loaded.ok
       THEN /\ config' = reload_publish(config, loaded.v)
            /\ lastLoaded' = loaded.v
            /\ loadedFrom' = LoadedFrom("reload", source)
            /\ resp' = [op |-> "reload", body |-> reload_response(loaded.v)]
       ELSE /\ resp' = [op |-> "reload", body |-> Http500(loaded.exc)]
            /\ UNCHANGED <<config, lastLoaded, loadedFrom>>
    /\ UNCHANGED <<source, edits, phase, running, now>>
    /\ UNCHANGED reqVars

\* POST /api/v1/payments, to the first await.  Requests are numbered in the
\* order in which their handlers start.
Start(r, draw, body) ==
    /\ Serving
    /\ pc[r] = "idle"
    /\ \A q \in Reqs : q < r => pc[q] # "idle"
    /\ LET out == payment_start(config, draw, now) IN
         /\ pc' = [pc EXCEPT ![r] = out.pc]
         /\ hist' = [hist EXCEPT ![r] = out.hist]
         /\ spans' = [spans EXCEPT ![r] = out.spans]
         /\ attrs' = [attrs EXCEPT ![r] = out.attrs]
         /\ wake' = [wake EXCEPT ![r] = out.wake]
         /\ result' = [result EXCEPT ![r] = out.result]
         /\ running' = IF out.pc = "acquire" THEN asyncio_sleep(r) ELSE 0
    /\ seen' = [seen EXCEPT ![r] = config]
    /\ payment' = [payment EXCEPT ![r] = body]
    /\ start_time' = [start_time EXCEPT ![r] = now]
    /\ UNCHANGED <<now>>
    /\ UNCHANGED cfgVars

StartPayment(r) == \E draw \in Draws : \E body \in OnePaymentRequest : Start(r, draw, body)

\* The loop resumes a coroutine whose timer is due.
Due(r) == running \in {0, r} /\ now >= wake[r]

\* The first sleep is over: on to the processor span and the second sleep.
AcquireDone(r) ==
    /\ pc[r] = "acquire"
    /\ Due(r)
    /\ pc' = [pc EXCEPT ![r] = acquire_done(hist[r]).pc]
    /\ hist' = [hist EXCEPT ![r] = acquire_done(hist[r]).hist]
    /\ spans' = [spans EXCEPT ![r] = acquire_done_spans(@)]
    /\ wake' = [wake EXCEPT ![r] = process_deadline(now)]
    /\ running' = asyncio_sleep(r)
    /\ UNCHANGED <<now, payment, attrs, seen, start_time, result>>
    /\ UNCHANGED cfgVars

\* The second sleep is over: the response.
ProcessDone(r) ==
    /\ pc[r] = "process"
    /\ Due(r)
    /\ LET elapsed == processing_time(start_time[r], now) IN
       /\ attrs' = [attrs EXCEPT ![r] = complete_attrs(@, config, elapsed)]
       /\ result' = [result EXCEPT ![r] = payment_response(payment[r], elapsed, now)]
    /\ pc' = [pc EXCEPT ![r] = "returned"]
    /\ hist' = [hist EXCEPT ![r] = Append(@, "Complete")]
    /\ spans' = [spans EXCEPT ![r] = complete_spans(@)]
    /\ running' = 0
    /\ UNCHANGED <<now, payment, seen, start_time, wake>>
    /\ UNCHANGED cfgVars

Suspended(r) == pc[r] \in {"acquire", "process"}

\* Time passes, up to a pending deadline.
Advance ==
    /\ \E r \in Reqs :
         /\ Suspended(r) /\ wake[r] > now
         /\ \A q \in Reqs : Suspended(q) => wake[q] >= wake[r] \/ wake[q] <= now
         /\ now' = wake[r]
    /\ UNCHANGED <<running>>
    /\ UNCHANGED cfgVars
    /\ UNCHANGED reqVars

Next ==
    \/ EditSource
    \/ module_load
    \/ lifespan
    \/ Health
    \/ GetConfig
    \/ Reload
    \/ \E r \in Reqs : StartPayment(r)
    \/ \E r \in Reqs : AcquireDone(r)
    \/ \E r \in Reqs : ProcessDone(r)
    \/ Advance

Spec == Init /\ [][Next]_vars

(***************************************************************************)
(* The latency model on its own: the service is up with a pool size from   *)
(* 0 to MaxPool in its file, and requests start with any of the draws.     *)
(***************************************************************************)
LatencyInit ==
    /\ \E p \in 0..MaxPool :
         /\ source = File(PoolDoc(p))
         /\ config = PoolDoc(p)
         /\ lastLoaded = PoolDoc(p)
         /\ loadedFrom = LoadedFrom("imported", File(PoolDoc(p)))
    /\ edits = 0
    /\ phase = "serving"
    /\ resp = [op |-> "none"]
    /\ running = 0
    /\ now = 0
    /\ payment = [r \in Reqs |-> NoPayment]
    /\ pc = [r \in Reqs |-> "idle"]
    /\ hist = [r \in Reqs |-> <<>>]
    /\ spans = [r \in Reqs |-> <<>>]
    /\ attrs = [r \in Reqs |-> NoAttrs]
    /\ seen = [r \in Reqs |-> Unset]
    /\ start_time = [r \in Reqs |-> 0]
    /\ wake = [r \in Reqs |-> 0]
    /\ result = [r \in Reqs |-> NoResponse]

LatencyNext ==
    \E r \in Reqs : \E draw \in AllDraws : \E body \in OnePaymentRequest : Start(r, draw, body)

LatencySpec == LatencyInit /\ [][LatencyNext]_vars

(***************************************************************************)
(* The payment handler on its own: the service is up with pool size 5 or   *)
(* 50, nothing is reloaded, and requests come with any body.               *)
(***************************************************************************)
TxnInit ==
    /\ \E p \in {5, 50} :
         /\ source = File(PoolDoc(p))
         /\ config = PoolDoc(p)
         /\ lastLoaded = PoolDoc(p)
         /\ loadedFrom = LoadedFrom("imported", File(PoolDoc(p)))
    /\ edits = 0
    /\ phase = "serving"
    /\ resp = [op |-> "none"]
    /\ running = 0
    /\ now = 0
    /\ payment = [r \in Reqs |-> NoPayment]
    /\ pc = [r \in Reqs |-> "idle"]
    /\ hist = [r \in Reqs |-> <<>>]
    /\ spans = [r \in Reqs |-> <<>>]
    /\ attrs = [r \in Reqs |-> NoAttrs]
    /\ seen = [r \in Reqs |-> Unset]
    /\ start_time = [r \in Reqs |-> 0]
    /\ wake = [r \in Reqs |-> 0]
    /\ result = [r \in Reqs |-> NoResponse]

TxnNext ==
    \/ \E r \in Reqs : \E draw \in Draws : \E body \in PaymentRequest : Start(r, draw, body)
    \/ \E r \in Reqs : AcquireDone(r)
    \/ \E r \in Reqs : ProcessDone(r)
    \/ Advance

TxnSpec == TxnInit /\ [][TxnNext]_vars

(***************************************************************************)
(* Properties.                                                             *)
(***************************************************************************)
\* The pool size a configuration stands for: database.connection_pool_size,
\* 50 when the entry is missing.
ConfiguredPool(cfg) ==
    IF /\ cfg.t = "map"
       /\ "database" \in DOMAIN cfg.m
       /\ cfg.m.database.t = "map"
       /\ "connection_pool_size" \in DOMAIN cfg.m.database.m
    THEN cfg.m.database.m.connection_pool_size
    ELSE PyInt(50)

\* The latency d lies in the tier of pool size p, upper ends included for
\* the two slow tiers.
InTier(p, d) ==
    /\ p < 10 => FloatAtLeast(d, 2000) /\ FloatAtMost(d, 5000)
    /\ (10 <= p /\ p < 25) => FloatAtLeast(d, 500) /\ FloatAtMost(d, 1500)
    /\ p >= 25 => FloatAtLeast(d, 10) /\ FloatLess(d, 50)

\* The same with every upper end excluded.
InHalfOpenTier(p, d) ==
    /\ p < 10 => FloatAtLeast(d, 2000) /\ FloatLess(d, 5000)
    /\ (10 <= p /\ p < 25) => FloatAtLeast(d, 500) /\ FloatLess(d, 1500)
    /\ p >= 25 => FloatAtLeast(d, 10) /\ FloatLess(d, 50)

Running(r) == pc[r] \in {"acquire", "process", "returned"}

\* C1 as stated: for every pool size p and every draw, the latency lies in
\* the half-open tier of p: [2000,5000) for p < 10, [500,1500) for
\* 10 <= p < 25, [10,50) for p >= 25.
C1_HalfOpenTiers ==
    \A r \in Reqs :
        Running(r) => InHalfOpenTier(ConfiguredPool(seen[r]).v, attrs[r].latency_ms)

\* C1 as amended: for every pool size p and every draw, the latency lies in
\* the tier chosen by the strict comparisons p < 10 and p < 25, which is
\* [2000,5000] for p < 10, [500,1500] for 10 <= p < 25 and [10,50) for
\* p >= 25; 10 and 25 fall in the faster tier.
C1_Tiers ==
    \A r \in Reqs :
        Running(r) => InTier(ConfiguredPool(seen[r]).v, attrs[r].latency_ms)

\* Pool size 10 with the greatest draw: exactly 1500.0 ms.
C1_Witness ==
    \E r \in Reqs :
        /\ pc[r] = "acquire"
        /\ seen[r] = PoolDoc(10)
        /\ Floor(attrs[r].latency_ms) = 1500
        /\ ~HasFraction(attrs[r].latency_ms)

\* C2: a request past Start carries the pool size, the warning and the
\* latency tier of the one configuration it read at Start, whatever has
\* been reloaded since.
C2_SnapshotKept ==
    \A r \in Reqs :
        Running(r) =>
            LET p == ConfiguredPool(seen[r]) IN
            /\ attrs[r].pool = p
            /\ (attrs[r].warning = "connection_pool_exhausted") <=> (p.v < 10)
            /\ InTier(p.v, attrs[r].latency_ms)

\* A request that read pool size 5 is suspended while the configuration
\* has been reloaded to pool size 50.
C2_Witness ==
    \E r \in Reqs :
        /\ Suspended(r)
        /\ seen[r] = PoolDoc(5)
        /\ attrs[r].warning = "connection_pool_exhausted"
        /\ config = PoolDoc(50)
        /\ resp.op = "reload"

\* What a step reads of the configuration is the snapshot last loaded.
ReadsLastLoaded ==
    /\ (resp' # resp /\ resp'.op = "config") => resp'.body.config = lastLoaded'
    /\ (resp' # resp /\ resp'.op = "health") => resp'.body = health(lastLoaded')
    /\ (resp' # resp /\ resp'.op = "reload" /\ resp'.body.code = 200) =>
           resp'.body.config = lastLoaded' /\ config' = lastLoaded'
    /\ \A r \in Reqs : (pc[r] = "idle" /\ pc'[r] # "idle") => seen'[r] = lastLoaded'

\* C3: once a load has completed the configuration is the snapshot it
\* loaded, whole, and that is what /config, /health, the reload response
\* and the Start of a payment read until the next reload completes.
C3_ReloadPublishes ==
    /\ [](phase = "serving" => config = lastLoaded)
    /\ [](resp.op = "config" => resp.body.config = config)
    /\ [][ReadsLastLoaded]_vars

\* GET /config answers with pool size 5 after the file was changed to it
\* and reloaded.
C3_Witness ==
    /\ resp.op = "config"
    /\ edits = 1
    /\ source = File(PoolDoc(5))
    /\ resp.body.config = PoolDoc(5)

\* C4 as stated: a request that has started is suspended or has returned
\* success; it never ends in an error.
C4_NeverAnError ==
    \A r \in Reqs :
        /\ pc[r] # "raised"
        /\ pc[r] = "returned" =>
               /\ result[r].status = "success"
               /\ result[r].message = "Payment processed successfully"

IsPrefix(s, t) == Len(s) <= Len(t) /\ \A i \in 1..Len(s) : s[i] = t[i]

\* C5 as stated: every request enters Start, AcquireConnection, Process,
\* Complete in that order, each once: what it has entered so far is the
\* beginning of that sequence, up to its suspension while it is suspended,
\* and all four once its handler is over.
C5_EveryStateOnce ==
    \A r \in Reqs :
        /\ IsPrefix(hist[r], Order)
        /\ pc[r] = "idle" <=> hist[r] = <<>>
        /\ pc[r] = "acquire" => hist[r] = SubSeq(Order, 1, 2)
        /\ pc[r] = "process" => hist[r] = SubSeq(Order, 1, 3)
        /\ pc[r] \in {"returned", "raised"} => hist[r] = Order

\* C6: while a request is suspended the other handlers can run: /health,
\* /config and /reload, the start of the next request, and the resumption
\* of any other request whose timer is due.
C6_NoStall ==
    \A r \in Reqs :
        Suspended(r) =>
            /\ ENABLED Health
            /\ ENABLED GetConfig
            /\ ENABLED Reload
            /\ \A q \in Reqs \ {r} :
                 /\ (pc[q] = "idle" /\ \A o \in Reqs : o < q => pc[o] # "idle") =>
                        ENABLED StartPayment(q)
                 /\ (pc[q] = "acquire" /\ now >= wake[q]) => ENABLED AcquireDone(q)
                 /\ (pc[q] = "process" /\ now >= wake[q]) => ENABLED ProcessDone(q)

\* The second request, with the shorter delay, has returned while the
\* first is still in its first sleep.
C6_Witness ==
    \E r, q \in Reqs :
        /\ r < q
        /\ pc[r] = "acquire"
        /\ pc[q] = "returned"
        /\ now < wake[r]
        /\ Ceil(attrs[q].latency_ms) < Ceil(attrs[r].latency_ms)

\* C7 as stated: load_config never raises and always gives a configuration
\* (a mapping): startup never fails, a reload never answers 500, and the
\* global is a mapping once loaded.
C7_LoadNeverFails ==
    /\ phase # "failed"
    /\ phase \in {"imported", "serving"} => config.t = "map"
    /\ resp.op = "reload" => resp.body.code = 200 /\ resp.body.config.t = "map"

\* C8: the answer of /health is "degraded" exactly when the pool size of
\* the current configuration is below 25, its warning is set exactly then,
\* and the pool size it reports is that pool size.
C8_Health ==
    (resp.op = "health" /\ resp.body.code = 200) =>
        LET p == ConfiguredPool(config).v IN
        /\ resp.body.connection_pool_size = p
        /\ resp.body.status = (IF p < 25 THEN "degraded" ELSE "healthy")
        /\ (resp.body.warning # "null") <=> (resp.body.status = "degraded")

\* /health answered "degraded" for pool size 24.
C8_Witness ==
    /\ resp.op = "health"
    /\ resp.body.code = 200
    /\ resp.body.connection_pool_size = 24
    /\ resp.body.status = "degraded"

\* C9: the processing time of a request that returned is at least its
\* latency plus the 10 ms of the second sleep.
C9_ProcessingTime ==
    \A r \in Reqs :
        pc[r] = "returned" =>
            /\ result[r].processing_time_ms - 10 >= Ceil(attrs[r].latency_ms)
            /\ attrs[r].processing_time_ms = result[r].processing_time_ms

\* Pool size 5, least draw: 2000 ms and 10 ms, 2010 ms in all.
C9_Witness ==
    \E r \in Reqs :
        /\ pc[r] = "returned"
        /\ seen[r] = PoolDoc(5)
        /\ result[r].processing_time_ms = 2010

\* The spans open after a log of starts and ends; <<"bad">> when an end
\* does not match the innermost open span.
RECURSIVE OpenAfter(_, _, _)
OpenAfter(log, i, open) ==
    IF i > Len(log) THEN open
    ELSE IF log[i][1] = "start" THEN OpenAfter(log, i + 1, Append(open, log[i][2]))
    ELSE IF open # <<>> /\ open[Len(open)] = log[i][2]
         THEN OpenAfter(log, i + 1, SubSeq(open, 1, Len(open) - 1))
    ELSE <<"bad">>

OpenSpans(r) == OpenAfter(spans[r], 1, <<>>)

\* C10: the spans of a request nest: the acquire span and then the
\* processor span inside the root span, one after the other; and none is
\* open once the request has returned or raised.
C10_Spans ==
    \A r \in Reqs :
        /\ OpenSpans(r) # <<"bad">>
        /\ pc[r] = "idle" => spans[r] = <<>>
        /\ pc[r] = "acquire" => OpenSpans(r) = <<"process_payment", "acquire_db_connection">>
        /\ pc[r] = "process" => OpenSpans(r) = <<"process_payment", "payment_processor">>
        /\ pc[r] \in {"returned", "raised"} => spans[r] # <<>> /\ OpenSpans(r) = <<>>
        /\ pc[r] = "returned" =>
               spans[r] = <<SpanStart("process_payment"),
                            SpanStart("acquire_db_connection"),
                            SpanEnd("acquire_db_connection"),
                            SpanStart("payment_processor"),
                            SpanEnd("payment_processor"),
                            SpanEnd("process_payment")>>

\* One request raised inside its acquire span, another returned.
C10_Witness ==
    \E r, q \in Reqs :
        /\ pc[r] = "raised" /\ Len(spans[r]) = 4
        /\ pc[q] = "returned"

\* The pool size a file stands for when it states one, and the file absent
\* standing for the default.
SourcePool(src) ==
    IF src.kind = "absent" THEN {50}
    ELSE IF src.kind = "file" THEN {p \in 0..MaxPool \cup PoolSizes : src.doc = PoolDoc(p)}
    ELSE {}

\* C11: a /health answered after a reload completed, and before the next
\* one, reports the pool size p that the reload loaded and the status that
\* goes with p: "degraded" with a warning for p < 25 (so for a file changed
\* from 50 to 5), "healthy" with none otherwise.
C11_HealthAfterReload ==
    (resp.op = "health" /\ loadedFrom.by = "reload") =>
        \A p \in SourcePool(loadedFrom.src) :
            /\ resp.body.code = 200
            /\ resp.body.connection_pool_size = p
            /\ resp.body.status = (IF p < 25 THEN "degraded" ELSE "healthy")
            /\ (resp.body.warning # "null") <=> (p < 25)

\* The file was changed to pool size 5 and reloaded, and /health has
\* answered "degraded" with a warning since.
C11_Witness ==
    /\ resp.op = "health"
    /\ edits = 1
    /\ loadedFrom = LoadedFrom("reload", File(PoolDoc(5)))
    /\ resp.body.code = 200
    /\ resp.body.status = "degraded"
    /\ resp.body.warning # "null"

\* The second at which a returned request completed.
DoneSecond(r) == unix_second(start_time[r] + result[r].processing_time_ms)

\* Reading a transaction id back: the place of its last "_", and the number
\* its decimal digits stand for.
LastUnderscore(s) ==
    CHOOSE k \in 1..Len(s) : s[k] = "_" /\ \A j \in (k + 1)..Len(s) : s[j] # "_"

IsDigit(c) == \E d \in 0..9 : Digit(d) = c

DigitValue(c) == CHOOSE d \in 0..9 : Digit(d) = c

RECURSIVE int_of(_)
int_of(s) ==
    IF s = <<>> THEN 0
    ELSE 10 * int_of(SubSeq(s, 1, Len(s) - 1)) + DigitValue(s[Len(s)])

\* C12: the transaction id of a returned request is "txn_", its order id,
\* "_" and the second of its completion in decimal, so that both can be
\* read back from it; and two returned requests have the same transaction
\* id exactly when they have the same order id and completed in the same
\* second, whatever their amount, currency and customer id.
C12_TransactionId ==
    \A r, q \in Reqs :
        (pc[r] = "returned" /\ pc[q] = "returned") =>
            LET id == result[r].transaction_id
                k  == LastUnderscore(id)
            IN  /\ Len(id) > 5
                /\ SubSeq(id, 1, 4) = <<"t", "x", "n", "_">>
                /\ k > 4 /\ k < Len(id)
                /\ SubSeq(id, 5, k - 1) = payment[r].order_id
                /\ \A j \in (k + 1)..Len(id) : IsDigit(id[j])
                /\ int_of(SubSeq(id, k + 1, Len(id))) = DoneSecond(r)
                /\ (id = result[q].transaction_id) <=>
                       /\ payment[r].order_id = payment[q].order_id
                       /\ DoneSecond(r) = DoneSecond(q)

\* Two requests with one order id and otherwise different bodies returned in
\* the same second with the same transaction id.
C12_Witness ==
    \E r, q \in Reqs :
        /\ r # q
        /\ pc[r] = "returned" /\ pc[q] = "returned"
        /\ payment[r].order_id = <<"7", "_", "2">>
        /\ payment[q].order_id = payment[r].order_id
        /\ payment[r].amount # payment[q].amount
        /\ payment[r].currency # payment[q].currency
        /\ payment[r].customer_id # payment[q].customer_id
        /\ result[r].transaction_id = result[q].transaction_id

\* A step that changes the configuration is a load at startup or a reload;
\* a step of a payment, of /health or of /config leaves it as it was, and so
\* does a change of the file, which changes no answer and no request either.
ConfigFrame ==
    /\ config' # config => (module_load \/ lifespan \/ Reload)
    /\ (pc' # pc \/ payment' # payment \/ attrs' # attrs \/ result' # result) =>
           config' = config
    /\ (resp' # resp /\ resp'.op \in {"health", "config"}) => config' = config
    /\ source' # source =>
           /\ config' = config /\ lastLoaded' = lastLoaded /\ resp' = resp
           /\ seen' = seen /\ attrs' = attrs /\ result' = result
    /\ (resp' # resp /\ resp'.op = "health") => resp'.body = health(config)
    /\ (resp' # resp /\ resp'.op = "config") => resp'.body = get_config(config)

\* C13: only the loads of startup and POST /reload change the
\* configuration: every step of process_payment, GET /health and GET /config
\* leave it unchanged, and a changed file is read by nobody until a reload:
\* while the service serves, the configuration is what the last load gave.
C13_OnlyLoadsChangeConfig ==
    /\ [](phase = "serving" => config = lastLoaded /\ loadedFrom.by \in {"imported", "reload"})
    /\ [][ConfigFrame]_vars

\* The file has been changed since it was loaded; /health has answered from
\* the configuration in use and a request that read it has returned.
C13_Witness ==
    /\ phase = "serving"
    /\ edits = 1
    /\ loadedFrom.src # source
    /\ load_config(source) # Ok(config)
    /\ resp.op = "health"
    /\ resp.body = health(config)
    /\ \E r \in Reqs : pc[r] = "returned" /\ seen[r] = config

InSevere(d) == FloatAtLeast(d, 2000) /\ FloatAtMost(d, 5000)

InSevereHalfOpen(d) == FloatAtLeast(d, 2000) /\ FloatLess(d, 5000)

Warned(r) == attrs[r].warning = "connection_pool_exhausted"

\* C14 as stated: in a request past Start the warning is attached exactly
\* when its pool size attribute is below 10, and exactly when its latency
\* lies in [2000,5000); a request that did not get that far has no warning.
C14_WarningHalfOpenTier ==
    \A r \in Reqs :
        /\ Running(r) =>
               /\ attrs[r].pool.t = "int"
               /\ Warned(r) <=> (attrs[r].pool.v < 10)
               /\ Warned(r) <=> InSevereHalfOpen(attrs[r].latency_ms)
        /\ ~Running(r) => ~Warned(r)

\* C14 as amended: in a request past Start the warning is attached exactly
\* when its pool size attribute is below 10, and exactly when its latency
\* lies in [2000,5000], upper end included; a request that did not get that
\* far has no warning.  This holds whatever is reloaded meanwhile.
C14_WarningAgreesWithTier ==
    \A r \in Reqs :
        /\ Running(r) =>
               /\ attrs[r].pool.t = "int"
               /\ Warned(r) <=> (attrs[r].pool.v < 10)
               /\ Warned(r) <=> InSevere(attrs[r].latency_ms)
        /\ ~Running(r) => ~Warned(r)

\* A request with the warning and a latency of exactly 5000.0 ms is
\* suspended while the configuration has been reloaded to pool size 50.
C14_Witness ==
    \E r \in Reqs :
        /\ Suspended(r)
        /\ Warned(r)
        /\ attrs[r].pool = PyInt(9)
        /\ Floor(attrs[r].latency_ms) = 5000 /\ ~HasFraction(attrs[r].latency_ms)
        /\ loadedFrom = LoadedFrom("reload", File(PoolDoc(50)))
        /\ config = PoolDoc(50)

\* A configuration that has the entry database.connection_pool_size.
HasPoolEntry(cfg) ==
    /\ cfg.t = "map"
    /\ "database" \in DOMAIN cfg.m
    /\ cfg.m.database.t = "map"
    /\ "connection_pool_size" \in DOMAIN cfg.m.database.m

\* C15 as stated: when the file exists and what was loaded from it has no
\* database.connection_pool_size entry, /health answers "healthy" with pool
\* size 50 and no warning, and a request that starts gets pool size 50, no
\* warning and a latency in [10,50).
C15_DefaultFifty ==
    /\ (/\ phase = "serving" /\ resp.op = "health"
        /\ loadedFrom.src.kind = "file" /\ ~HasPoolEntry(config)) =>
           /\ resp.body.code = 200
           /\ resp.body.status = "healthy"
           /\ resp.body.connection_pool_size = 50
           /\ resp.body.warning = "null"
    /\ \A r \in Reqs :
           (pc[r] # "idle" /\ ~HasPoolEntry(seen[r])) =>
               /\ Running(r)
               /\ attrs[r].pool = PyInt(50)
               /\ ~Warned(r)
               /\ FloatAtLeast(attrs[r].latency_ms, 10) /\ FloatLess(attrs[r].latency_ms, 50)

====
